---- MODULE Spec2Model ----
(***************************************************************************)
(* Library management: the borrow / return / renew transaction workflow    *)
(* with e-mailed verification codes (routes/books.py, routes/user.py,      *)
(* email_service.py).                                                      *)
(*                                                                         *)
(* Tables are sequences; a row's id is its index.  Time is counted in      *)
(* half days (12 hours), so that datetime.date() truncation is visible.    *)
(* models.py is not among the sources: the model methods the               *)
(* handlers call (is_available, can_borrow, renew, ...) are written from   *)
(* the specification and from what the handlers show about them.           *)
(***************************************************************************)
EXTENDS Integers, Sequences, FiniteSets, TLC

----------------------------------------------------------------------------
(* Bounds of the model *)

\* the size of a run: the rows the Borrowing, Reservation and
\* TransactionVerification tables hold together, plus the jumps of the clock
MaxSize == 5

(* Program constants *)

MaxBorrowDays == 14
VerificationHours == 24
ReservationHoldDays == 3
MaxBooksPerUser == 5
FinePerDay == 5
MaxRenewals == 2
CodeLength == 6

Users == {"u1", "u2"}
Books == {"b1", "b2"}

\* total_copies of each book; never written by the workflow
TotalCopies == [b \in Books |-> IF b = "b1" THEN 1 ELSE 2]

\* 'borrowed' Borrowings a user holds of books outside Books, which no
\* request of the model touches: u1 is one book short of the cap
OtherBorrowed == [u \in Users |-> IF u = "u1" THEN 4 ELSE 0]

\* strings are sequences of characters
CodeA == <<"A", "A", "A", "A", "A", "A">>
CodeB == <<"B", "7", "B", "7", "B", "7">>
CodeC == <<"C", "3", "C", "3", "C", "3">>

\* the verification codes generate_verification_code can draw, cut to three
CodeList == <<CodeA, CodeB, CodeC>>
Codes == {CodeList[i] : i \in DOMAIN CodeList}

\* what a user can type into the verification form: a code as mailed, a
\* code in lower case with blanks around it, blanks only, and a string that
\* is too short
RawInputs ==
    {CodeB, CodeC,
     <<" ", "a", "a", "a", "a", "a", "a", " ">>,
     <<" ", " ">>, <<"A", "B", "7">>}

\* how far the clock may jump between two requests, in half days:
\* 24 hours, 19 days
TickSteps == {2, 38}

NoDate == -1
NoId == 0

VARIABLES
    now,            \* datetime.utcnow(), in half days
    ticks,          \* how often the clock has jumped
    available,      \* Book.available_copies
    borrowings,     \* table Borrowing
    reservations,   \* table Reservation
    verifications,  \* table TransactionVerification
    notifications,  \* table Notification
    faulted,        \* the verification whose finalize step raised last
    seed,           \* rows held at the start that do not count against MaxSize
    threads,        \* per user, the verify request that is under way
    email_logs      \* table EmailLog, each row with the fate of its message

db == <<available, borrowings, reservations, verifications, notifications>>
vars == <<now, ticks, available, borrowings, reservations, verifications,
          notifications, faulted, seed, threads, email_logs>>

----------------------------------------------------------------------------
(* datetime helpers *)

\* timedelta(days=n)
Days(n) == n * 2

\* timedelta(hours=h), for whole multiples of 12 hours
Hours(h) == h \div 12

\* datetime.date(): the day a time falls in
DateOf(t) == t \div 2

----------------------------------------------------------------------------
(* models.py, from the specification *)

\* Book.is_available()
is_available(b) == available[b] > 0

BorrowingIds == 1..Len(borrowings)
ReservationIds == 1..Len(reservations)
VerificationIds == 1..Len(verifications)

\* the borrowed Borrowings of a user, which can_borrow() counts
ActiveCount(u) ==
    OtherBorrowed[u]
    + Cardinality({i \in BorrowingIds :
                      /\ borrowings[i].user_id = u
                      /\ borrowings[i].status = "borrowed"})

RECURSIVE SumFines(_, _)
SumFines(u, i) ==
    IF i = 0 THEN 0
    ELSE SumFines(u, i - 1)
         + (IF borrowings[i].user_id = u /\ ~borrowings[i].fine_paid
            THEN borrowings[i].fine_amount ELSE 0)

\* User.get_total_fine(): the unpaid fines stored on the user's borrowings
get_total_fine(u) == SumFines(u, Len(borrowings))

\* User.can_borrow()
can_borrow(u) == ActiveCount(u) < MaxBooksPerUser /\ get_total_fine(u) = 0

\* Borrowing.is_overdue()
is_overdue(r) == r.due_date < now

\* Borrowing.can_renew()
can_renew(r) == ~is_overdue(r) /\ r.renewed_count < MaxRenewals

\* Borrowing.renew(), the mutation it applies when can_renew() holds
renewed(r) ==
    [r EXCEPT !.due_date = r.due_date + Days(MaxBorrowDays),
              !.renewed_count = r.renewed_count + 1]

\* Borrowing.calculate_fine() of a row whose return_date is set
calculate_fine(r) ==
    LET days == DateOf(r.return_date) - DateOf(r.due_date)
    IN  IF days > 0 THEN days * FinePerDay ELSE 0

\* TransactionVerification.is_expired()
is_expired(v) == v.expires_at < now

----------------------------------------------------------------------------
(* rows *)

\* room left in the run
RowsLeft ==
    MaxSize + seed
    - (ticks + Len(borrowings) + Len(reservations) + Len(verifications)
         + Len(email_logs))

NewBorrowing(u, b, due) ==
    [user_id |-> u, book_id |-> b, status |-> "pending",
     borrow_date |-> now, due_date |-> due,
     return_date |-> NoDate, renewed_count |-> 0,
     fine_amount |-> 0, fine_paid |-> FALSE]

\* created_at is the reading of a clock much finer than the half days of
\* `now`: no two requests read the same.  It is kept as the half day and
\* the place of the request among the reservations made so far.
NewReservation(u, b) ==
    [user_id |-> u, book_id |-> b, status |-> "pending",
     created_at |-> <<now, Len(reservations) + 1>>,
     expiry_date |-> NoDate, notified |-> FALSE]

\* the order of two clock readings
NotAfter(s, t) == s[1] < t[1] \/ (s[1] = t[1] /\ s[2] <= t[2])

NewNotification(u, type, related) ==
    [user_id |-> u, notification_type |-> type, related_id |-> related]

\* email_service.create_transaction_verification: the row it commits
NewVerification(u, bid, ttype, code) ==
    [user_id |-> u, borrowing_id |-> bid, transaction_type |-> ttype,
     verification_code |-> code,
     expires_at |-> now + Hours(VerificationHours),
     is_verified |-> FALSE, verified_at |-> NoDate]

----------------------------------------------------------------------------
(* str.strip().upper() *)

Upper(c) == CASE c = "a" -> "A" [] c = "b" -> "B" [] OTHER -> c

RECURSIVE LStrip(_)
LStrip(s) == IF s # <<>> /\ Head(s) = " " THEN LStrip(Tail(s)) ELSE s

RECURSIVE RStrip(_)
RStrip(s) ==
    IF s # <<>> /\ s[Len(s)] = " " THEN RStrip(SubSeq(s, 1, Len(s) - 1)) ELSE s

RECURSIVE UpperAll(_)
UpperAll(s) ==
    IF s = <<>> THEN <<>> ELSE <<Upper(Head(s))>> \o UpperAll(Tail(s))

StripUpper(raw) == UpperAll(RStrip(LStrip(raw)))

\* what the form's inputs become, worked out once
Normalized == [raw \in RawInputs |-> StripUpper(raw)]

Normalize(raw) ==
    IF raw \in DOMAIN Normalized THEN Normalized[raw] ELSE StripUpper(raw)

----------------------------------------------------------------------------
(* queries *)

Min(S) == CHOOSE x \in S : \A y \in S : x <= y

\* Query.first() over a set of row ids: SQLite hands the rows out in rowid
\* order, so the first row is the one with the smallest id
First(ids) == IF ids = {} THEN NoId ELSE Min(ids)

\* Reservation.query.filter_by(user_id, book_id, status='pending').first()
PendingReservationOf(u, b) ==
    First({i \in ReservationIds :
              /\ reservations[i].user_id = u
              /\ reservations[i].book_id = b
              /\ reservations[i].status = "pending"})

\* Borrowing.query.filter_by(user_id, book_id, status='borrowed').first()
ExistingBorrowed(u, b) ==
    First({i \in BorrowingIds :
              /\ borrowings[i].user_id = u
              /\ borrowings[i].book_id = b
              /\ borrowings[i].status = "borrowed"})

\* the same query without its user_id filter
BorrowedByAnyUser(u, bid) ==
    First({i \in BorrowingIds : i = bid /\ borrowings[i].status = "borrowed"})

\* the same query also finding a Borrowing whose return was requested
BorrowedOrReturningByUser(u, bid) ==
    First({i \in BorrowingIds :
              /\ i = bid
              /\ borrowings[i].user_id = u
              /\ borrowings[i].status \in {"borrowed", "pending_return"}})

\* Borrowing.query.filter_by(id, user_id, status='borrowed').first_or_404()
BorrowedByUser(u, bid) ==
    First({i \in BorrowingIds :
              /\ i = bid
              /\ borrowings[i].user_id = u
              /\ borrowings[i].status = "borrowed"})

\* the same query without its user_id filter
LookupAnyUser(u, code) ==
    First({i \in VerificationIds : verifications[i].verification_code = code})

\* TransactionVerification.query.filter_by(user_id, verification_code).first()
Lookup(u, code) ==
    First({i \in VerificationIds :
              /\ verifications[i].user_id = u
              /\ verifications[i].verification_code = code})

\* generate_verification_code(): a uniform draw, and nothing keeps it apart
\* from the codes in the table.  The handlers compare codes for equality
\* only, and only among the rows of one user, so up to the names of the codes
\* a draw either repeats a code the user already has or is the first code
\* the user does not have yet.
DrawCodes(u) ==
    LET mine == {verifications[i].verification_code :
                    i \in {j \in VerificationIds : verifications[j].user_id = u}}
        free == {i \in DOMAIN CodeList : CodeList[i] \notin mine}
    IN  mine \cup (IF free = {} THEN {} ELSE {CodeList[Min(free)]})

----------------------------------------------------------------------------
(* A handler is an operator of the state and of the request's inputs (the    *)
(* code generate_verification_code draws is one of them): it yields the      *)
(* tables as the handler commits them and the message it flashes.            *)

\* a request that flashes msg and commits nothing
Reject(msg) ==
    [available |-> available, borrowings |-> borrowings,
     reservations |-> reservations, verifications |-> verifications,
     notifications |-> notifications, flash |-> msg]

\* the handler changed no table
NoChange(res) ==
    /\ res.available = available
    /\ res.borrowings = borrowings
    /\ res.reservations = reservations
    /\ res.verifications = verifications
    /\ res.notifications = notifications

\* the tables take the values the handler committed.  A request that changes
\* no table is a stuttering step, which the specification allows anyway.
\* no verify request of the user is under way
Idle == [pc |-> "idle", vid |-> NoId, status |-> "none", seen |-> 0,
         flash |-> "none"]

Commit(res) ==
    /\ ~NoChange(res)
    /\ available' = res.available
    /\ borrowings' = res.borrowings
    /\ reservations' = res.reservations
    /\ verifications' = res.verifications
    /\ notifications' = res.notifications
    /\ UNCHANGED <<now, ticks, faulted, seed, threads, email_logs>>

Init ==
    /\ now = 0
    /\ ticks = 0
    /\ available = TotalCopies
    /\ borrowings = <<>>
    /\ reservations = <<>>
    /\ verifications = <<>>
    /\ notifications = <<>>
    /\ faulted = NoId
    /\ seed = 0
    /\ threads = [u \in Users |-> Idle]
    /\ email_logs = <<>>

\* time passes between two requests
Tick ==
    \E d \in TickSteps :
        /\ RowsLeft >= 1
        /\ now' = now + d
        /\ ticks' = ticks + 1
        /\ UNCHANGED <<db, faulted, seed, threads, email_logs>>

----------------------------------------------------------------------------
(* POST /books/<book_id>/borrow *)

\* borrow() without its check for a copy the user already holds
BorrowCheckNoDuplicate(u, b) ==
    IF ~is_available(b) THEN "not_available"
    ELSE IF ~can_borrow(u)
         THEN (IF get_total_fine(u) > 0 THEN "fines_pending"
               ELSE "limit_reached")
    ELSE "ok"

\* the checks of borrow(), in their order: the message flashed, or "ok"
BorrowCheck(u, b) ==
    IF ~is_available(b) THEN "not_available"
    ELSE IF ~can_borrow(u)
         THEN (IF get_total_fine(u) > 0 THEN "fines_pending"
               ELSE "limit_reached")
    ELSE IF ExistingBorrowed(u, b) # NoId THEN "already_borrowed"
    ELSE "ok"

\* the due date borrow() gives the new Borrowing
BorrowDueDate == now + Days(MaxBorrowDays)

\* borrow() leaving the user's reservation as it is
KeepReservation(u, b) == reservations

\* the user's pending reservation of the book marked fulfilled
FulfilReservation(u, b) ==
    LET r == PendingReservationOf(u, b)
    IN  IF r = NoId THEN reservations
        ELSE [reservations EXCEPT ![r].status = "fulfilled"]

\* borrow() taking the copy at request time already
BorrowCommitTakesCopy(u, b, code) ==
    LET bid == Len(borrowings) + 1
    IN  [available |-> [available EXCEPT ![b] = @ - 1],
         borrowings |-> Append(borrowings, NewBorrowing(u, b, BorrowDueDate)),
         reservations |-> FulfilReservation(u, b),
         verifications |->
             Append(verifications, NewVerification(u, bid, "borrow", code)),
         notifications |->
             Append(notifications, NewNotification(u, "borrow", bid)),
         flash |-> "borrow_requested"]

\* what a request that passed the checks commits
BorrowCommit(u, b, code) ==
    LET bid == Len(borrowings) + 1
    IN  [available |-> available,
         borrowings |-> Append(borrowings, NewBorrowing(u, b, BorrowDueDate)),
         reservations |-> FulfilReservation(u, b),
         verifications |->
             Append(verifications, NewVerification(u, bid, "borrow", code)),
         notifications |->
             Append(notifications, NewNotification(u, "borrow", bid)),
         flash |-> "borrow_requested"]

borrow(u, b, code) ==
    IF BorrowCheck(u, b) # "ok" THEN Reject(BorrowCheck(u, b))
    ELSE BorrowCommit(u, b, code)

Borrow ==
    \E u \in Users, b \in Books :
        /\ RowsLeft >= 2
        /\ \E code \in DrawCodes(u) : \E res \in {borrow(u, b, code)} : Commit(res)

----------------------------------------------------------------------------
(* POST /borrowings/<borrowing_id>/return *)

\* return_book() completing the return itself, with no code in between
return_book_immediate(u, bid, code) ==
    IF BorrowedByUser(u, bid) = NoId THEN Reject("not_found")
    ELSE [available |-> available,
          borrowings |-> [borrowings EXCEPT ![bid].status = "returned"],
          reservations |-> reservations,
          verifications |->
              Append(verifications, NewVerification(u, bid, "return", code)),
          notifications |-> notifications,
          flash |-> "return_requested"]

\* return_book() marking the Borrowing without issuing a code
return_book_unverified(u, bid, code) ==
    IF BorrowedByUser(u, bid) = NoId THEN Reject("not_found")
    ELSE [Reject("return_requested") EXCEPT
             !.borrowings = [borrowings EXCEPT ![bid].status = "pending_return"]]

return_book(u, bid, code) ==
    IF BorrowedByUser(u, bid) = NoId THEN Reject("not_found")
    ELSE [available |-> available,
          borrowings |-> [borrowings EXCEPT ![bid].status = "pending_return"],
          reservations |-> reservations,
          verifications |->
              Append(verifications, NewVerification(u, bid, "return", code)),
          notifications |-> notifications,
          flash |-> "return_requested"]

ReturnBook ==
    \E u \in Users, bid \in BorrowingIds :
        /\ RowsLeft >= 1
        /\ \E code \in DrawCodes(u) : \E res \in {return_book(u, bid, code)} : Commit(res)

----------------------------------------------------------------------------
(* POST /borrowings/<borrowing_id>/renew *)

\* the message of a renewal that renew() refused
RenewRefusal(r) ==
    IF is_overdue(r) THEN "cannot_renew_overdue"
    ELSE IF r.renewed_count >= 2 THEN "renewal_limit"
    ELSE "unable_to_renew"

\* renew_book() going on whatever renew() answered
renew_book_unchecked(u, bid, code) ==
    IF BorrowedByUser(u, bid) = NoId THEN Reject("not_found")
    ELSE [available |-> available,
          borrowings |-> [borrowings EXCEPT ![bid] = renewed(borrowings[bid])],
          reservations |-> reservations,
          verifications |->
              Append(verifications, NewVerification(u, bid, "renew", code)),
          notifications |->
              Append(notifications, NewNotification(u, "renewal", bid)),
          flash |-> "renewed"]

renew_book(u, bid, code) ==
    IF BorrowedByUser(u, bid) = NoId THEN Reject("not_found")
    ELSE IF ~can_renew(borrowings[bid])
         THEN Reject(RenewRefusal(borrowings[bid]))
    ELSE [available |-> available,
          borrowings |-> [borrowings EXCEPT ![bid] = renewed(borrowings[bid])],
          reservations |-> reservations,
          verifications |->
              Append(verifications, NewVerification(u, bid, "renew", code)),
          notifications |->
              Append(notifications, NewNotification(u, "renewal", bid)),
          flash |-> "renewed"]

RenewBook ==
    \E u \in Users, bid \in BorrowingIds :
        /\ RowsLeft >= 1
        /\ \E code \in DrawCodes(u) : \E res \in {renew_book(u, bid, code)} : Commit(res)

----------------------------------------------------------------------------
(* POST /books/<book_id>/reserve and /cancel-reservation *)

\* reserve without the query for an existing pending Reservation
reserve_unchecked(u, b) ==
    IF is_available(b) THEN Reject("book_is_available")
    ELSE [Reject("reserved") EXCEPT
             !.reservations = Append(reservations, NewReservation(u, b))]

reserve(u, b) ==
    IF is_available(b) THEN Reject("book_is_available")
    ELSE IF PendingReservationOf(u, b) # NoId THEN Reject("already_reserved")
    ELSE [Reject("reserved") EXCEPT
             !.reservations = Append(reservations, NewReservation(u, b))]

Reserve ==
    \E u \in Users, b \in Books :
        /\ RowsLeft >= 1
        /\ \E res \in {reserve(u, b)} : Commit(res)

cancel_reservation(u, b) ==
    IF PendingReservationOf(u, b) = NoId THEN Reject("not_found")
    ELSE [Reject("reservation_cancelled") EXCEPT
             !.reservations =
                 [reservations EXCEPT
                     ![PendingReservationOf(u, b)].status = "cancelled"]]

CancelReservation ==
    \E u \in Users, b \in Books : \E res \in {cancel_reservation(u, b)} : Commit(res)

----------------------------------------------------------------------------
(* POST /fines/<fine_id>/pay and /fines/pay-all *)

\* Borrowing.query.filter_by(id, user_id).first_or_404()
BorrowingOfUser(u, bid) ==
    First({i \in BorrowingIds : i = bid /\ borrowings[i].user_id = u})

\* the rows the fine handlers charge: not returned and past the due date
Outstanding(r) == r.return_date = NoDate /\ r.due_date < now

\* the row with the fine of today charged and marked paid
FinePaidRow(r) ==
    [r EXCEPT !.fine_amount = (DateOf(now) - DateOf(r.due_date)) * 5,
              !.fine_paid = TRUE]

\* pay_fine() closing the Borrowing it was paid for
pay_fine_closing(u, bid) ==
    IF BorrowingOfUser(u, bid) = NoId THEN Reject("not_found")
    ELSE IF ~Outstanding(borrowings[bid]) THEN Reject("no_fine_to_pay")
    ELSE [Reject("fine_paid") EXCEPT
             !.borrowings =
                 [borrowings EXCEPT
                     ![bid] = [FinePaidRow(borrowings[bid]) EXCEPT
                                  !.status = "returned"]]]

pay_fine(u, bid) ==
    IF BorrowingOfUser(u, bid) = NoId THEN Reject("not_found")
    ELSE IF ~Outstanding(borrowings[bid]) THEN Reject("no_fine_to_pay")
    ELSE [Reject("fine_paid") EXCEPT
             !.borrowings =
                 [borrowings EXCEPT ![bid] = FinePaidRow(borrowings[bid])]]

PayFine ==
    \E u \in Users, bid \in BorrowingIds : \E res \in {pay_fine(u, bid)} : Commit(res)

RECURSIVE SumPaid(_, _)
SumPaid(u, i) ==
    IF i = 0 THEN 0
    ELSE SumPaid(u, i - 1)
         + (IF borrowings[i].user_id = u /\ Outstanding(borrowings[i])
            THEN FinePaidRow(borrowings[i]).fine_amount ELSE 0)

pay_all_fines(u) ==
    [Reject(IF SumPaid(u, Len(borrowings)) > 0 THEN "all_fines_paid"
            ELSE "no_outstanding_fines") EXCEPT
        !.borrowings =
            [i \in BorrowingIds |->
                IF borrowings[i].user_id = u /\ Outstanding(borrowings[i])
                THEN FinePaidRow(borrowings[i]) ELSE borrowings[i]]]

PayAllFines ==
    \E u \in Users : \E res \in {pay_all_fines(u)} : Commit(res)

----------------------------------------------------------------------------
(* POST /notifications/<id>/read, /mark-all-read, /<id>/delete *)

NotificationIds == 1..Len(notifications)

\* Notification.query.filter_by(id, user_id).first_or_404()
NotificationOfUser(u, nid) ==
    First({i \in NotificationIds : i = nid /\ notifications[i].user_id = u})

\* is_read, the one column the two requests write, is not among the
\* columns kept here
mark_notification_read(u, nid) ==
    IF NotificationOfUser(u, nid) = NoId THEN Reject("not_found")
    ELSE Reject("notification_read")

mark_all_notifications_read(u) == Reject("all_notifications_read")

delete_notification(u, nid) ==
    IF NotificationOfUser(u, nid) = NoId THEN Reject("not_found")
    ELSE [Reject("notification_deleted") EXCEPT
             !.notifications =
                 [i \in 1..(Len(notifications) - 1) |->
                     IF i < nid THEN notifications[i]
                     ELSE notifications[i + 1]]]

----------------------------------------------------------------------------
(* POST /verify-transaction *)

\* the checks without the one for a code already verified
VerifyCheckReusable(u, code) ==
    IF code = <<>> THEN "enter_code"
    ELSE IF Len(code) # CodeLength THEN "bad_length"
    ELSE IF Lookup(u, code) = NoId THEN "invalid_code"
    ELSE IF is_expired(verifications[Lookup(u, code)]) THEN "expired"
    ELSE "finalize"

\* the checks without the one for an expired code
VerifyCheckNoExpiry(u, code) ==
    IF code = <<>> THEN "enter_code"
    ELSE IF Len(code) # CodeLength THEN "bad_length"
    ELSE IF Lookup(u, code) = NoId THEN "invalid_code"
    ELSE IF verifications[Lookup(u, code)].is_verified THEN "already_verified"
    ELSE "finalize"

\* the checks of verify_transaction_code() on the normalised code, in their
\* order: the message flashed, or "finalize"
VerifyCheck(u, code) ==
    IF code = <<>> THEN "enter_code"
    ELSE IF Len(code) # CodeLength THEN "bad_length"
    ELSE IF Lookup(u, code) = NoId THEN "invalid_code"
    ELSE IF verifications[Lookup(u, code)].is_verified THEN "already_verified"
    ELSE IF is_expired(verifications[Lookup(u, code)]) THEN "expired"
    ELSE "finalize"

\* verification.is_verified = True; verification.verified_at = utcnow()
MarkVerified(vid) ==
    [verifications EXCEPT ![vid].is_verified = TRUE, ![vid].verified_at = now]

\* the borrow branch without its late guard
BookExhaustedNever(b) == FALSE

\* the late guard of the borrow branch
BookExhausted(b) == available[b] <= 0

\* the exhausted book rolling the verification back instead
ExhaustedRollback(vid) == Reject("no_longer_available")

\* what the borrow branch commits when the book is exhausted
ExhaustedCommit(vid) ==
    [Reject("no_longer_available") EXCEPT !.verifications = MarkVerified(vid)]

\* the borrow branch leaving borrow_date as the request set it
BorrowedRowKeepsDate(r) == [r EXCEPT !.status = "borrowed"]

\* the Borrowing a verified borrow code finalizes
BorrowedRow(r) == [r EXCEPT !.status = "borrowed", !.borrow_date = now]

\* the return branch leaving fine_amount as it was
ReturnedRowNoFine(r) == [r EXCEPT !.return_date = now, !.status = "returned"]

\* the return branch computing the fine before it sets return_date
ReturnedRowFineFirst(r) ==
    [r EXCEPT !.return_date = now, !.fine_amount = calculate_fine(r),
              !.status = "returned"]

\* the Borrowing a verified return code finalizes
ReturnedRow(r) ==
    LET back == [r EXCEPT !.return_date = now]
    IN  [back EXCEPT !.fine_amount = calculate_fine(back),
                     !.status = "returned"]

\* the same query ordered by created_at descending
NewestReservation(b) ==
    LET pending == {i \in ReservationIds :
                       /\ reservations[i].book_id = b
                       /\ reservations[i].status = "pending"}
    IN  First({i \in pending :
                  \A j \in pending :
                      NotAfter(reservations[j].created_at,
                               reservations[i].created_at)})

\* Reservation.query.filter_by(book_id, status='pending')
\*     .order_by(Reservation.created_at).first()
NextReservation(b) ==
    LET pending == {i \in ReservationIds :
                       /\ reservations[i].book_id = b
                       /\ reservations[i].status = "pending"}
    IN  First({i \in pending :
                  \A j \in pending :
                      NotAfter(reservations[i].created_at,
                               reservations[j].created_at)})

\* the reservation told that the book is back
PromotedRow(r) ==
    [r EXCEPT !.expiry_date = now + Days(ReservationHoldDays),
              !.notified = TRUE]

FinalizeBorrow(u, vid) ==
    LET bid == verifications[vid].borrowing_id
        b   == borrowings[bid].book_id
    IN  IF borrowings[bid].status # "pending"
        THEN [Reject("verified") EXCEPT !.verifications = MarkVerified(vid)]
        ELSE IF BookExhausted(b) THEN ExhaustedCommit(vid)
        ELSE [available |-> [available EXCEPT ![b] = @ - 1],
              borrowings |->
                  [borrowings EXCEPT ![bid] = BorrowedRow(borrowings[bid])],
              reservations |-> reservations,
              verifications |-> MarkVerified(vid),
              notifications |->
                  Append(notifications, NewNotification(u, "borrow", bid)),
              flash |-> "verified"]

\* the return branch without book.available_copies += 1
FinalizeReturnKeepsCopy(u, vid) ==
    LET bid == verifications[vid].borrowing_id
    IN  [Reject("verified") EXCEPT
            !.borrowings =
                [borrowings EXCEPT ![bid] = ReturnedRow(borrowings[bid])],
            !.verifications = MarkVerified(vid)]

FinalizeReturn(u, vid) ==
    LET bid  == verifications[vid].borrowing_id
        b    == borrowings[bid].book_id
        next == NextReservation(b)
    IN  [available |-> [available EXCEPT ![b] = @ + 1],
         borrowings |->
             [borrowings EXCEPT ![bid] = ReturnedRow(borrowings[bid])],
         reservations |->
             IF next = NoId THEN reservations
             ELSE [reservations EXCEPT ![next] = PromotedRow(reservations[next])],
         verifications |-> MarkVerified(vid),
         notifications |->
             IF next = NoId THEN notifications
             ELSE Append(notifications,
                         NewNotification(reservations[next].user_id,
                                         "reservation", NoId)),
         flash |-> "verified"]

\* the renew branch only recording the confirmation
FinalizeRenewMarksOnly(u, vid) ==
    [Reject("verified") EXCEPT !.verifications = MarkVerified(vid)]

FinalizeRenew(u, vid) ==
    LET bid == verifications[vid].borrowing_id
    IN  [Reject("verified") EXCEPT
            !.verifications = MarkVerified(vid),
            !.borrowings =
                IF can_renew(borrowings[bid])
                THEN [borrowings EXCEPT ![bid] = renewed(borrowings[bid])]
                ELSE borrowings]

verify_transaction_code(u, raw) ==
    LET code == Normalize(raw)
        vid  == Lookup(u, code)
    IN  IF VerifyCheck(u, code) # "finalize" THEN Reject(VerifyCheck(u, code))
        ELSE IF verifications[vid].transaction_type = "borrow"
             THEN FinalizeBorrow(u, vid)
        ELSE IF verifications[vid].transaction_type = "return"
             THEN FinalizeReturn(u, vid)
        ELSE FinalizeRenew(u, vid)

VerifyTransactionCode ==
    \E u \in Users, raw \in RawInputs : \E res \in {verify_transaction_code(u, raw)} : Commit(res)

\* the except branch keeping the mark verify set before the try block
FinalizeFaultKeepsMark(vid) ==
    [Reject("finalize_error") EXCEPT !.verifications = MarkVerified(vid)]

\* the except branch: db.session.rollback() drops everything the request
\* changed in its session, the mark set before the try block included
FinalizeFault(vid) == Reject("finalize_error")

\* verify_transaction_code() when a statement of its try block raises, up
\* to and including the commit
verify_transaction_code_raising(u, raw) ==
    LET code == Normalize(raw)
        vid  == Lookup(u, code)
    IN  IF VerifyCheck(u, code) # "finalize" THEN Reject(VerifyCheck(u, code))
        ELSE FinalizeFault(vid)

\* a verify request whose finalize step raises; the verification it was
\* for is remembered
VerifyTransactionFault ==
    \E u \in Users, raw \in RawInputs :
        /\ VerifyCheck(u, Normalize(raw)) = "finalize"
        /\ faulted' = Lookup(u, Normalize(raw))
        /\ faulted' # faulted
        /\ \E res \in {verify_transaction_code_raising(u, raw)} :
              /\ available' = res.available
              /\ borrowings' = res.borrowings
              /\ reservations' = res.reservations
              /\ verifications' = res.verifications
              /\ notifications' = res.notifications
        /\ UNCHANGED <<now, ticks, seed, threads, email_logs>>

----------------------------------------------------------------------------
Next ==
    \/ Tick
    \/ Borrow
    \/ ReturnBook
    \/ RenewBook
    \/ Reserve
    \/ CancelReservation
    \/ PayFine
    \/ PayAllFines
    \/ VerifyTransactionCode

Spec == Init /\ [][Next]_vars

----------------------------------------------------------------------------
(* borrow verifications served by threads of their own *)

\* the borrow branch working on the status and the available_copies it
\* loaded: the count it stores is the one it loaded, less one
FinalizeBorrowSeen(u, vid, status, seen) ==
    LET bid == verifications[vid].borrowing_id
        b   == borrowings[bid].book_id
    IN  IF status # "pending"
        THEN [Reject("verified") EXCEPT !.verifications = MarkVerified(vid)]
        ELSE IF seen <= 0 THEN ExhaustedCommit(vid)
        ELSE [available |-> [available EXCEPT ![b] = seen - 1],
              borrowings |->
                  [borrowings EXCEPT ![bid] = BorrowedRow(borrowings[bid])],
              reservations |-> reservations,
              verifications |-> MarkVerified(vid),
              notifications |->
                  Append(notifications, NewNotification(u, "borrow", bid)),
              flash |-> "verified"]

\* the request arrives: the code is looked up and passes the checks, the
\* Borrowing and its Book are loaded
VerifyRead ==
    \E u \in Users, raw \in RawInputs :
        \E vid \in {Lookup(u, Normalize(raw))} :
            /\ threads[u].pc = "idle"
            /\ VerifyCheck(u, Normalize(raw)) = "finalize"
            /\ verifications[vid].transaction_type = "borrow"
            /\ threads' =
                   [threads EXCEPT
                       ![u] = [pc |-> "read", vid |-> vid,
                               status |->
                                   borrowings[
                                       verifications[vid].borrowing_id].status,
                               seen |->
                                   available[borrowings[
                                       verifications[vid].borrowing_id].book_id],
                               flash |-> "none"]]
            /\ UNCHANGED <<now, ticks, db, faulted, seed, email_logs>>

\* the branch runs on what was loaded and the request commits
VerifyCommit ==
    \E u \in Users :
        /\ threads[u].pc = "read"
        /\ \E res \in {FinalizeBorrowSeen(u, threads[u].vid, threads[u].status,
                                          threads[u].seen)} :
              /\ available' = res.available
              /\ borrowings' = res.borrowings
              /\ reservations' = res.reservations
              /\ verifications' = res.verifications
              /\ notifications' = res.notifications
              /\ threads' = [threads EXCEPT ![u].pc = "done",
                                            ![u].flash = res.flash]
        /\ UNCHANGED <<now, ticks, faulted, seed, email_logs>>

\* a return request up to its first commit: the Borrowing is found in
\* status borrowed, and create_transaction_verification commits the return
\* code
ReturnIssue ==
    \E u \in Users, bid \in BorrowingIds :
        /\ threads[u].pc = "idle"
        /\ RowsLeft >= 1
        /\ BorrowedByUser(u, bid) # NoId
        /\ \E code \in DrawCodes(u) :
               verifications' =
                   Append(verifications, NewVerification(u, bid, "return", code))
        /\ threads' = [threads EXCEPT ![u] = [pc |-> "return_issued",
                                              vid |-> Len(verifications) + 1,
                                              status |-> borrowings[bid].status,
                                              seen |-> 0, flash |-> "none"]]
        /\ UNCHANGED <<now, ticks, available, borrowings, reservations,
                       notifications, faulted, seed, email_logs>>

\* the rest of that request: borrowing.status = 'pending_return' and the
\* second commit, whatever the status has become
ReturnMark ==
    \E u \in Users :
        /\ threads[u].pc = "return_issued"
        /\ borrowings' =
               [borrowings EXCEPT
                   ![verifications[threads[u].vid].borrowing_id].status =
                       "pending_return"]
        /\ threads' = [threads EXCEPT ![u].pc = "done",
                                      ![u].flash = "return_requested"]
        /\ UNCHANGED <<now, ticks, available, reservations, verifications,
                       notifications, faulted, seed, email_logs>>

\* the requests that move copies and statuses, whole or in steps
NextRace ==
    \/ Tick
    \/ Borrow
    \/ ReturnBook
    \/ VerifyTransactionCode
    \/ VerifyRead
    \/ VerifyCommit
    \/ ReturnIssue
    \/ ReturnMark

SpecRace == Init /\ [][NextRace]_vars

----------------------------------------------------------------------------
(* email_service.send_email and its sender thread *)

\* what can become of a call of send_email(): the sender thread is started,
\* or the call raises before the EmailLog row is committed (building the
\* Message), or after it (starting the thread)
MailOutcomes == {"queued", "raises_before_log", "raises_after_log"}

\* the subject line of the message of a request
Subject(kind, b) == <<kind, b>>

\* timedelta(minutes=m) in half days
Minutes(m) == m \div 720

EmailLogIds == 1..Len(email_logs)

\* EmailLog(recipient, subject, status='pending'), with what has become of
\* the message it was written for
NewEmailLog(u, subject, message) ==
    [recipient |-> u, subject |-> subject, status |-> "pending",
     created_at |-> now, message |-> message]

\* send_email(): the EmailLog table it leaves
send_email(u, subject, mail) ==
    IF mail = "raises_before_log" THEN email_logs
    ELSE IF mail = "raises_after_log"
         THEN Append(email_logs, NewEmailLog(u, subject, "none"))
    ELSE Append(email_logs, NewEmailLog(u, subject, "in_flight"))

\* the EmailLog rows a call of send_email() adds
LogRows(mail) == IF mail = "raises_before_log" THEN 0 ELSE 1

\* a request whose call of send_email() is not inside try/except
AfterMailUncaught(mail) == IF mail = "queued" THEN "goes_on" ELSE "aborts"

\* try: ... send_email(...) except Exception as e: print(...)
AfterMail(mail) == "goes_on"

\* borrow(): everything is committed when the email is sent
borrow_mailed(u, b, code, mail) ==
    IF BorrowCheck(u, b) # "ok" THEN Reject(BorrowCheck(u, b))
    ELSE IF AfterMail(mail) = "aborts"
         THEN [BorrowCommit(u, b, code) EXCEPT !.flash = "server_error"]
    ELSE borrow(u, b, code)

\* return_book(): the verification is committed before the email is sent,
\* the status after it
return_book_mailed(u, bid, code, mail) ==
    IF BorrowedByUser(u, bid) = NoId THEN Reject("not_found")
    ELSE IF AfterMail(mail) = "aborts"
         THEN [Reject("server_error") EXCEPT
                  !.verifications =
                      Append(verifications,
                             NewVerification(u, bid, "return", code))]
    ELSE return_book(u, bid, code)

\* renew_book(): everything is committed when the email is sent
renew_book_mailed(u, bid, code, mail) ==
    IF renew_book(u, bid, code).flash # "renewed" THEN renew_book(u, bid, code)
    ELSE IF AfterMail(mail) = "aborts"
         THEN [renew_book(u, bid, code) EXCEPT !.flash = "server_error"]
    ELSE renew_book(u, bid, code)

\* the request is committed together with the EmailLog table send_email()
\* left
CommitMailed(res, logs) ==
    /\ ~NoChange(res)
    /\ available' = res.available
    /\ borrowings' = res.borrowings
    /\ reservations' = res.reservations
    /\ verifications' = res.verifications
    /\ notifications' = res.notifications
    /\ email_logs' = logs
    /\ UNCHANGED <<now, ticks, faulted, seed, threads>>

BorrowMailed ==
    \E u \in Users, b \in Books, mail \in MailOutcomes :
        /\ RowsLeft >= 2 + LogRows(mail)
        /\ \E code \in DrawCodes(u) :
              \E res \in {borrow_mailed(u, b, code, mail)} :
                  CommitMailed(res, send_email(u, Subject("borrow", b), mail))

ReturnBookMailed ==
    \E u \in Users, bid \in BorrowingIds, mail \in MailOutcomes :
        /\ RowsLeft >= 1 + LogRows(mail)
        /\ \E code \in DrawCodes(u) :
              \E res \in {return_book_mailed(u, bid, code, mail)} :
                  CommitMailed(res,
                               send_email(u,
                                          Subject("return",
                                                  borrowings[bid].book_id),
                                          mail))

RenewBookMailed ==
    \E u \in Users, bid \in BorrowingIds, mail \in MailOutcomes :
        /\ RowsLeft >= 1 + LogRows(mail)
        /\ \E code \in DrawCodes(u) :
              \E res \in {renew_book_mailed(u, bid, code, mail)} :
                  CommitMailed(res,
                               send_email(u,
                                          Subject("renew",
                                                  borrowings[bid].book_id),
                                          mail))

\* the EmailLog rows send_async_email() finds for a message: same
\* recipient and subject, pending, not older than 10 minutes
LogsFoundFor(i) ==
    {j \in EmailLogIds :
        /\ email_logs[j].recipient = email_logs[i].recipient
        /\ email_logs[j].subject = email_logs[i].subject
        /\ email_logs[j].status = "pending"
        /\ email_logs[j].created_at >= now - Minutes(10)}

\* the table after the sender thread of message i set the rows it found
MarkLogs(i, status, fate) ==
    [j \in EmailLogIds |->
        [[email_logs[j] EXCEPT
             !.status = IF j \in LogsFoundFor(i) THEN status ELSE @]
          EXCEPT !.message = IF j = i THEN fate ELSE @]]

\* send_async_email(): mail.send(msg) succeeded
MailDelivered ==
    \E i \in EmailLogIds :
        /\ email_logs[i].message = "in_flight"
        /\ email_logs' = MarkLogs(i, "sent", "delivered")
        /\ UNCHANGED <<now, ticks, db, faulted, seed, threads>>

\* send_async_email(): mail.send(msg) raised
MailFailed ==
    \E i \in EmailLogIds :
        /\ email_logs[i].message = "in_flight"
        /\ email_logs' = MarkLogs(i, "failed", "failed")
        /\ UNCHANGED <<now, ticks, db, faulted, seed, threads>>

\* the requests that send a message, the verify request that lets a
\* Borrowing be returned or renewed, and the sender threads
NextMail ==
    \/ Tick
    \/ BorrowMailed
    \/ ReturnBookMailed
    \/ RenewBookMailed
    \/ VerifyTransactionCode
    \/ MailDelivered
    \/ MailFailed

SpecMail == Init /\ [][NextMail]_vars

----------------------------------------------------------------------------
\* The library after u1 borrowed the single copy of b1, u2 reserved the
\* book, and u1 returned it, every step confirmed at once: the copy is
\* back and the reservation of u2, told so, is still pending.
InitSeeded ==
    /\ now = 0
    /\ ticks = 0
    /\ available = TotalCopies
    /\ borrowings =
           <<[user_id |-> "u1", book_id |-> "b1", status |-> "returned",
              borrow_date |-> 0, due_date |-> Days(MaxBorrowDays),
              return_date |-> 0, renewed_count |-> 0,
              fine_amount |-> 0, fine_paid |-> FALSE]>>
    /\ reservations =
           <<[user_id |-> "u2", book_id |-> "b1", status |-> "pending",
              created_at |-> <<0, 1>>,
              expiry_date |-> Days(ReservationHoldDays), notified |-> TRUE]>>
    /\ verifications =
           <<[user_id |-> "u1", borrowing_id |-> 1,
              transaction_type |-> "borrow", verification_code |-> CodeA,
              expires_at |-> Hours(VerificationHours),
              is_verified |-> TRUE, verified_at |-> 0],
             [user_id |-> "u1", borrowing_id |-> 1,
              transaction_type |-> "return", verification_code |-> CodeB,
              expires_at |-> Hours(VerificationHours),
              is_verified |-> TRUE, verified_at |-> 0]>>
    /\ notifications =
           <<[user_id |-> "u1", notification_type |-> "borrow",
              related_id |-> 1],
             [user_id |-> "u1", notification_type |-> "borrow",
              related_id |-> 1],
             [user_id |-> "u2", notification_type |-> "reservation",
              related_id |-> NoId]>>
    /\ faulted = NoId
    /\ seed = 4
    /\ threads = [u \in Users |-> Idle]
    /\ email_logs = <<>>

\* the workflow going on from there
SpecSeeded == InitSeeded /\ [][Next]_vars

\* The library after u1 and u2 each borrowed a copy of b2 and confirmed
\* at once: the book has no copy left on the shelf.
InitLent ==
    /\ now = 0
    /\ ticks = 0
    /\ available = [TotalCopies EXCEPT !["b2"] = 0]
    /\ borrowings =
           [i \in 1..2 |->
               [user_id |-> IF i = 1 THEN "u1" ELSE "u2", book_id |-> "b2",
                status |-> "borrowed",
                borrow_date |-> 0, due_date |-> Days(MaxBorrowDays),
                return_date |-> NoDate, renewed_count |-> 0,
                fine_amount |-> 0, fine_paid |-> FALSE]]
    /\ reservations = <<>>
    /\ verifications =
           [i \in 1..2 |->
               [user_id |-> IF i = 1 THEN "u1" ELSE "u2", borrowing_id |-> i,
                transaction_type |-> "borrow", verification_code |-> CodeA,
                expires_at |-> Hours(VerificationHours),
                is_verified |-> TRUE, verified_at |-> 0]]
    /\ notifications =
           [i \in 1..4 |->
               [user_id |-> IF i \in {1, 3} THEN "u1" ELSE "u2",
                notification_type |-> "borrow",
                related_id |-> IF i \in {1, 3} THEN 1 ELSE 2]]
    /\ faulted = NoId
    /\ seed = 3
    /\ threads = [u \in Users |-> Idle]
    /\ email_logs = <<>>

\* the workflow going on from there
SpecLent == InitLent /\ [][Next]_vars

\* the same start with the messages of the requests and their sender threads
SpecLentMail == InitLent /\ [][NextMail]_vars

\* the workflow with verify requests that raise
NextFault == Next \/ VerifyTransactionFault

SpecFault == Init /\ [][NextFault]_vars

----------------------------------------------------------------------------
(* Properties of the workflow *)

Last(s) == s[Len(s)]
Front(s) == SubSeq(s, 1, Len(s) - 1)

\* the verification a typed code selects for a user; NoId when none
RowOf(u, raw) == Lookup(u, Normalize(raw))

\* a verification that was not used and has not run out
Usable(vid) ==
    /\ ~verifications[vid].is_verified
    /\ verifications[vid].expires_at >= now

\* the pending reservations of a book
PendingOn(b) ==
    {i \in ReservationIds :
        reservations[i].book_id = b /\ reservations[i].status = "pending"}

C2_CodeFinalizesOnce ==
    \A u \in Users, raw \in RawInputs :
        (\E vid \in VerificationIds :
            /\ verifications[vid].user_id = u
            /\ verifications[vid].verification_code = Normalize(raw)
            /\ verifications[vid].is_verified)
        => \A res \in {verify_transaction_code(u, raw)} :
               res.flash = "already_verified" /\ NoChange(res)

\* a borrow code that finalized its Borrowing, is still within its 24
\* hours, and can be typed again
C2_Witness ==
    \E u \in Users, raw \in RawInputs :
        LET vid == RowOf(u, raw)
        IN  /\ vid # NoId
            /\ verifications[vid].is_verified
            /\ verifications[vid].expires_at >= now
            /\ verifications[vid].transaction_type = "borrow"
            /\ borrowings[verifications[vid].borrowing_id].status = "borrowed"

\* C3: every request that issues a verification sets its expires_at to the
\* time of the request plus 24 hours, and a verify request for a
\* verification with expires_at < now changes no table, whatever its type;
\* an unverified one is answered "expired" and so stays unverified.
C3_ExpiredCodeRejected ==
    /\ \A u \in Users, code \in Codes :
          /\ \A b \in Books : \A res \in {borrow(u, b, code)} :
                res.flash = "borrow_requested" =>
                    Last(res.verifications).expires_at
                        = now + VerificationHours \div 12
          /\ \A bid \in BorrowingIds :
                /\ \A res \in {return_book(u, bid, code)} :
                      res.flash = "return_requested" =>
                          Last(res.verifications).expires_at
                              = now + VerificationHours \div 12
                /\ \A res \in {renew_book(u, bid, code)} :
                      res.flash = "renewed" =>
                          Last(res.verifications).expires_at
                              = now + VerificationHours \div 12
    /\ \A u \in Users, raw \in RawInputs :
          \A vid \in {RowOf(u, raw)} :
              (vid # NoId /\ verifications[vid].expires_at < now) =>
                  \A res \in {verify_transaction_code(u, raw)} :
                      /\ NoChange(res)
                      /\ ~verifications[vid].is_verified
                             => res.flash = "expired"

\* an unverified return code ran out while its Borrowing waits for it
C3_Witness ==
    \E u \in Users, raw \in RawInputs :
        LET vid == RowOf(u, raw)
        IN  /\ vid # NoId
            /\ ~verifications[vid].is_verified
            /\ verifications[vid].expires_at < now
            /\ verifications[vid].transaction_type = "return"
            /\ borrowings[verifications[vid].borrowing_id].status
                   = "pending_return"

\* C4: when a usable return code is verified while the book has pending
\* reservations, exactly one of them, one with the least created_at, gets
\* notified = TRUE and expiry_date = now + 3 days, a Notification goes to
\* its owner, and no other reservation is modified.
C4_OldestReservationPromoted ==
    \A u \in Users, raw \in RawInputs :
        \A vid \in {RowOf(u, raw)} :
            (/\ vid # NoId
             /\ Usable(vid)
             /\ verifications[vid].transaction_type = "return"
             /\ PendingOn(borrowings[verifications[vid].borrowing_id].book_id)
                    # {})
            => \A res \in {verify_transaction_code(u, raw)} :
                 \E k \in PendingOn(borrowings[verifications[vid].borrowing_id]
                                        .book_id) :
                    /\ \A j \in PendingOn(reservations[k].book_id) :
                          NotAfter(reservations[k].created_at,
                                   reservations[j].created_at)
                    /\ res.reservations =
                          [reservations EXCEPT
                              ![k].notified = TRUE,
                              ![k].expiry_date = now + 2 * ReservationHoldDays]
                    /\ res.notifications =
                          Append(notifications,
                                 [user_id |-> reservations[k].user_id,
                                  notification_type |-> "reservation",
                                  related_id |-> NoId])

\* a book came back with two reservations waiting: the older one was
\* promoted, the newer one was left as it was
C4_Witness ==
    \E k, j \in ReservationIds :
        /\ reservations[k].book_id = reservations[j].book_id
        /\ reservations[k].created_at # reservations[j].created_at
        /\ NotAfter(reservations[k].created_at, reservations[j].created_at)
        /\ reservations[k].status = "pending"
        /\ reservations[k].notified
        /\ reservations[k].expiry_date # NoDate
        /\ reservations[j].status = "pending"
        /\ ~reservations[j].notified
        /\ \E i \in BorrowingIds :
              /\ borrowings[i].book_id = reservations[k].book_id
              /\ borrowings[i].status = "returned"

C6_BorrowRequest ==
    \A u \in Users, b \in Books, code \in Codes :
        \A res \in {borrow(u, b, code)} :
            res.flash = "borrow_requested" =>
              /\ Front(res.borrowings) = borrowings
              /\ Last(res.borrowings).user_id = u
              /\ Last(res.borrowings).book_id = b
              /\ Last(res.borrowings).status = "pending"
              /\ Last(res.borrowings).due_date = now + 2 * MaxBorrowDays
              /\ Front(res.verifications) = verifications
              /\ Last(res.verifications).user_id = u
              /\ Last(res.verifications).transaction_type = "borrow"
              /\ Last(res.verifications).borrowing_id = Len(res.borrowings)
              /\ ~Last(res.verifications).is_verified
              /\ res.available = available

\* a request went through and waits for its code: the Borrowing is pending,
\* its borrow code unverified, and every copy of the book still on the shelf
C6_Witness ==
    \E vid \in VerificationIds :
        LET bid == verifications[vid].borrowing_id
        IN  /\ verifications[vid].transaction_type = "borrow"
            /\ ~verifications[vid].is_verified
            /\ borrowings[bid].status = "pending"
            /\ borrowings[bid].due_date = now + 2 * MaxBorrowDays
            /\ available[borrowings[bid].book_id]
                   = TotalCopies[borrowings[bid].book_id]

\* C7: a borrow request changes no table and is not accepted when the book
\* has no available copy, or the user holds the maximum of borrowed books
\* or owes a fine, or the user already holds a borrowed Borrowing of the book.
C7_BorrowRejected ==
    \A u \in Users, b \in Books :
        (\/ available[b] = 0
         \/ ActiveCount(u) >= MaxBooksPerUser
         \/ get_total_fine(u) > 0
         \/ \E i \in BorrowingIds :
               /\ borrowings[i].user_id = u
               /\ borrowings[i].book_id = b
               /\ borrowings[i].status = "borrowed")
        => \A code \in Codes : \A res \in {borrow(u, b, code)} :
               NoChange(res) /\ res.flash # "borrow_requested"

\* one user is at the cap with the last copy of a book, the other holds a
\* book of which a copy is left
C7_Witness ==
    /\ available["b1"] = 0
    /\ ActiveCount("u1") >= MaxBooksPerUser
    /\ available["b2"] > 0
    /\ \E i \in BorrowingIds :
          /\ borrowings[i].user_id = "u2"
          /\ borrowings[i].book_id = "b2"
          /\ borrowings[i].status = "borrowed"

\* C8: a return request for a Borrowing that exists, belongs to the user
\* and is borrowed sets its status to pending_return, issues exactly one
\* return verification bound to it and leaves available_copies as it was;
\* any other return request changes no table.
C8_ReturnRequest ==
    \A u \in Users, bid \in BorrowingIds, code \in Codes :
        \A res \in {return_book(u, bid, code)} :
            IF borrowings[bid].user_id = u /\ borrowings[bid].status = "borrowed"
            THEN /\ res.borrowings =
                       [borrowings EXCEPT ![bid].status = "pending_return"]
                 /\ Front(res.verifications) = verifications
                 /\ Last(res.verifications).user_id = u
                 /\ Last(res.verifications).transaction_type = "return"
                 /\ Last(res.verifications).borrowing_id = bid
                 /\ ~Last(res.verifications).is_verified
                 /\ res.available = available
                 /\ res.reservations = reservations
            ELSE NoChange(res)

\* a return was requested: the copy is still out, and the other user holds
\* a borrowed book a return request could name
C8_Witness ==
    \E vid \in VerificationIds, i \in BorrowingIds :
        LET bid == verifications[vid].borrowing_id
        IN  /\ verifications[vid].transaction_type = "return"
            /\ ~verifications[vid].is_verified
            /\ borrowings[bid].status = "pending_return"
            /\ borrowings[i].status = "borrowed"
            /\ borrowings[i].user_id # borrowings[bid].user_id

\* C9: verifying a usable borrow code whose Borrowing is pending while the
\* book has a copy available takes exactly one copy, sets the Borrowing to
\* borrowed with borrow_date = now, marks the code verified and adds one
\* Notification for the user; nothing else changes.
C9_BorrowFinalized ==
    \A u \in Users, raw \in RawInputs :
        \A vid \in {RowOf(u, raw)} :
            (/\ vid # NoId
             /\ Usable(vid)
             /\ verifications[vid].transaction_type = "borrow"
             /\ borrowings[verifications[vid].borrowing_id].status = "pending"
             /\ available[borrowings[verifications[vid].borrowing_id].book_id]
                    > 0)
            => \A res \in {verify_transaction_code(u, raw)} :
                 LET bid == verifications[vid].borrowing_id
                     b   == borrowings[bid].book_id
                 IN  /\ res.available = [available EXCEPT ![b] = @ - 1]
                     /\ res.borrowings =
                           [borrowings EXCEPT ![bid].status = "borrowed",
                                              ![bid].borrow_date = now]
                     /\ res.verifications =
                           [verifications EXCEPT ![vid].is_verified = TRUE,
                                                 ![vid].verified_at = now]
                     /\ res.notifications =
                           Append(notifications,
                                  [user_id |-> u,
                                   notification_type |-> "borrow",
                                   related_id |-> bid])
                     /\ res.reservations = reservations

\* a borrow was finalized some time after it was requested
C9_Witness ==
    \E vid \in VerificationIds :
        LET bid == verifications[vid].borrowing_id
        IN  /\ verifications[vid].transaction_type = "borrow"
            /\ verifications[vid].is_verified
            /\ verifications[vid].verified_at
                   > verifications[vid].expires_at - VerificationHours \div 12
            /\ borrowings[bid].status = "borrowed"
            /\ borrowings[bid].borrow_date = verifications[vid].verified_at
            /\ available[borrowings[bid].book_id]
                   < TotalCopies[borrowings[bid].book_id]

\* the borrow codes that were used up on an exhausted book: verified, with
\* the Borrowing still pending
Consumed ==
    {vid \in VerificationIds :
        /\ verifications[vid].transaction_type = "borrow"
        /\ verifications[vid].is_verified
        /\ borrowings[verifications[vid].borrowing_id].status = "pending"}

\* C10: verifying a usable borrow code whose Borrowing is pending while the
\* book has no copy available leaves available_copies at 0, the Borrowing
\* pending and the notifications as they were, but stores the code as
\* verified; afterwards the same code is answered "already verified", and
\* no request of any kind moves the Borrowing out of pending.
C10_ExhaustedBorrowConsumesCode ==
    /\ \A u \in Users, raw \in RawInputs :
          \A vid \in {RowOf(u, raw)} :
              (/\ vid # NoId
               /\ Usable(vid)
               /\ verifications[vid].transaction_type = "borrow"
               /\ borrowings[verifications[vid].borrowing_id].status
                      = "pending"
               /\ available[borrowings[verifications[vid].borrowing_id]
                                .book_id] = 0)
              => \A res \in {verify_transaction_code(u, raw)} :
                    /\ res.available = available
                    /\ res.borrowings = borrowings
                    /\ res.notifications = notifications
                    /\ res.reservations = reservations
                    /\ res.verifications =
                          [verifications EXCEPT ![vid].is_verified = TRUE,
                                                ![vid].verified_at = now]
    /\ \A vid \in Consumed :
          LET bid == verifications[vid].borrowing_id
              Kept(res) == res.borrowings[bid].status = "pending"
          IN  /\ \A u \in Users, raw \in RawInputs :
                    \A res \in {verify_transaction_code(u, raw)} :
                        /\ Kept(res)
                        /\ (/\ u = verifications[vid].user_id
                            /\ Normalize(raw)
                                   = verifications[vid].verification_code)
                           => res.flash = "already_verified" /\ NoChange(res)
              /\ \A u \in Users, code \in Codes :
                    /\ \A b \in Books : Kept(borrow(u, b, code))
                    /\ \A i \in BorrowingIds :
                          /\ Kept(return_book(u, i, code))
                          /\ Kept(renew_book(u, i, code))
                          /\ Kept(pay_fine(u, i))
                    /\ Kept(pay_all_fines(u))

\* a borrow code was used up while another user held the last copy
C10_Witness ==
    \E vid \in Consumed :
        LET bid == verifications[vid].borrowing_id
        IN  /\ available[borrowings[bid].book_id] = 0
            /\ \E raw \in RawInputs :
                  RowOf(verifications[vid].user_id, raw) = vid
            /\ \E i \in BorrowingIds :
                  /\ borrowings[i].book_id = borrowings[bid].book_id
                  /\ borrowings[i].status = "borrowed"

\* C11: verifying a usable return code sets the Borrowing's return_date to
\* now, its fine_amount to what calculate_fine() answers for that return
\* date and its status to returned, and adds exactly 1 to the book's
\* available_copies.
C11_ReturnFinalized ==
    \A u \in Users, raw \in RawInputs :
        \A vid \in {RowOf(u, raw)} :
            (/\ vid # NoId
             /\ Usable(vid)
             /\ verifications[vid].transaction_type = "return")
            => \A res \in {verify_transaction_code(u, raw)} :
                 LET bid == verifications[vid].borrowing_id
                     b   == borrowings[bid].book_id
                 IN  /\ res.borrowings =
                           [borrowings EXCEPT
                               ![bid].return_date = now,
                               ![bid].fine_amount =
                                   calculate_fine([borrowings[bid] EXCEPT
                                                      !.return_date = now]),
                               ![bid].status = "returned"]
                     /\ res.available = [available EXCEPT ![b] = @ + 1]
                     /\ res.verifications =
                           [verifications EXCEPT ![vid].is_verified = TRUE,
                                                 ![vid].verified_at = now]

\* a book came back late: the return is stored with its date and a fine,
\* and the copy is on the shelf again
C11_Witness ==
    \E bid \in BorrowingIds :
        /\ borrowings[bid].status = "returned"
        /\ borrowings[bid].return_date > borrowings[bid].due_date
        /\ borrowings[bid].fine_amount > 0
        /\ available[borrowings[bid].book_id]
               = TotalCopies[borrowings[bid].book_id]

\* C12: the verification lookup is scoped to the acting user.  A well-formed
\* code of which the acting user has no verification is answered "invalid
\* code" and changes no table, whether another user has a verification with
\* that code or nobody has: the other user's verification stays unverified,
\* their Borrowing and the book's available_copies stay as they were.
C12_LookupScopedToUser ==
    \A u \in Users, raw \in RawInputs :
        (/\ Len(Normalize(raw)) = CodeLength
         /\ \A vid \in VerificationIds :
               verifications[vid].user_id = u
                   => verifications[vid].verification_code # Normalize(raw))
        => \A res \in {verify_transaction_code(u, raw)} :
               res.flash = "invalid_code" /\ NoChange(res)

\* a user can type a code that is usable, but was issued to the other user
\* only
C12_Witness ==
    \E u \in Users, raw \in RawInputs, vid \in VerificationIds :
        /\ RowOf(u, raw) = NoId
        /\ verifications[vid].user_id # u
        /\ verifications[vid].verification_code = Normalize(raw)
        /\ Usable(vid)
        /\ borrowings[verifications[vid].borrowing_id].status = "pending"
        /\ available[borrowings[verifications[vid].borrowing_id].book_id] > 0

Requests ==
    {[op |-> "borrow", res |-> borrow(u, b, code)] :
        u \in Users, b \in Books, code \in Codes}
    \cup {[op |-> "return", res |-> return_book(u, bid, code)] :
             u \in Users, bid \in BorrowingIds, code \in Codes}
    \cup {[op |-> "renew", res |-> renew_book(u, bid, code)] :
             u \in Users, bid \in BorrowingIds, code \in Codes}
    \cup {[op |-> "reserve", res |-> reserve(u, b)] : u \in Users, b \in Books}
    \cup {[op |-> "cancel", res |-> cancel_reservation(u, b)] :
             u \in Users, b \in Books}
    \cup {[op |-> "pay_fine", res |-> pay_fine(u, bid)] :
             u \in Users, bid \in BorrowingIds}
    \cup {[op |-> "pay_all", res |-> pay_all_fines(u)] : u \in Users}
    \cup {[op |-> "verify", res |-> verify_transaction_code(u, raw)] :
             u \in Users, raw \in RawInputs}

\* the request verified a code of the given type that was bound to the
\* Borrowing and unverified before
VerifiedFor(rq, bid, ttype) ==
    /\ rq.op = "verify"
    /\ \E vid \in VerificationIds :
          /\ verifications[vid].borrowing_id = bid
          /\ verifications[vid].transaction_type = ttype
          /\ ~verifications[vid].is_verified
          /\ rq.res.verifications[vid].is_verified

\* C15: the status of a Borrowing only moves along pending -> borrowed ->
\* pending_return -> returned, one step at a time.  Whatever request is
\* sent, a Borrowing keeps its status or takes the next one: pending ->
\* borrowed and pending_return -> returned only in a verify request that
\* verifies a borrow resp. return code of that Borrowing, borrowed ->
\* pending_return only in a return request; no Borrowing disappears, and a
\* new one starts as pending in a borrow request.
C15_StatusMovesForward ==
    \A rq \in Requests :
        /\ Len(rq.res.borrowings) >= Len(borrowings)
        /\ \A bid \in BorrowingIds :
              LET old == borrowings[bid].status
                  new == rq.res.borrowings[bid].status
              IN  \/ new = old
                  \/ /\ old = "pending" /\ new = "borrowed"
                     /\ VerifiedFor(rq, bid, "borrow")
                  \/ /\ old = "borrowed" /\ new = "pending_return"
                     /\ rq.op = "return"
                  \/ /\ old = "pending_return" /\ new = "returned"
                     /\ VerifiedFor(rq, bid, "return")
        /\ \A bid \in (Len(borrowings) + 1)..Len(rq.res.borrowings) :
              rq.op = "borrow" /\ rq.res.borrowings[bid].status = "pending"

\* a Borrowing went the whole way: requested, confirmed, return requested,
\* return confirmed
C15_Witness ==
    \E bid \in BorrowingIds, v, w \in VerificationIds :
        /\ borrowings[bid].status = "returned"
        /\ verifications[v].borrowing_id = bid
        /\ verifications[v].transaction_type = "borrow"
        /\ verifications[v].is_verified
        /\ verifications[w].borrowing_id = bid
        /\ verifications[w].transaction_type = "return"
        /\ verifications[w].is_verified

\* the verifications of a type bound to a Borrowing
BoundTo(bid, ttype) ==
    {vid \in VerificationIds :
        /\ verifications[vid].borrowing_id = bid
        /\ verifications[vid].transaction_type = ttype}

\* C16: a renewal request applies the extension at once and issues a renew
\* code, and verifying that code applies the renewal once more when
\* can_renew() holds.  (a) A granted renewal request adds one to
\* renewed_count and 14 days to due_date and stores an unverified renew
\* code.  (b) Verifying a usable renew code adds one more and 14 more days
\* when the Borrowing is not overdue and was renewed less than twice, and
\* leaves the Borrowing alone otherwise.  (c) A Borrowing renewed by one
\* request whose code was verified has renewed_count = 2 and is due 28
\* days after the due date its borrow request gave it.
C16_RenewalAppliedTwice ==
    /\ \A u \in Users, bid \in BorrowingIds, code \in Codes :
          \A res \in {renew_book(u, bid, code)} :
              res.flash = "renewed" =>
                  /\ res.borrowings[bid].renewed_count =
                         borrowings[bid].renewed_count + 1
                  /\ res.borrowings[bid].due_date =
                         borrowings[bid].due_date + Days(14)
                  /\ Len(res.verifications) = Len(verifications) + 1
                  /\ Last(res.verifications).transaction_type = "renew"
                  /\ Last(res.verifications).borrowing_id = bid
                  /\ ~Last(res.verifications).is_verified
    /\ \A u \in Users, raw \in RawInputs :
          \A vid \in {RowOf(u, raw)} :
              (/\ vid # NoId
               /\ Usable(vid)
               /\ verifications[vid].transaction_type = "renew") =>
                  LET bid == verifications[vid].borrowing_id
                      r   == borrowings[bid]
                      res == verify_transaction_code(u, raw)
                  IN  /\ res.flash = "verified"
                      /\ res.verifications[vid].is_verified
                      /\ res.borrowings[bid] =
                             IF r.due_date >= now /\ r.renewed_count < 2
                             THEN [r EXCEPT
                                     !.renewed_count = r.renewed_count + 1,
                                     !.due_date = r.due_date + Days(14)]
                             ELSE r
    /\ \A bid \in BorrowingIds :
          \A rv \in BoundTo(bid, "renew") :
              (BoundTo(bid, "renew") = {rv} /\ verifications[rv].is_verified) =>
                  /\ borrowings[bid].renewed_count = 2
                  /\ \A bv \in BoundTo(bid, "borrow") :
                        borrowings[bid].due_date =
                            (verifications[bv].expires_at - Hours(24))
                                + Days(14) + Days(28)

\* one renewal request on a Borrowing never renewed before, its code
\* verified: renewed twice
C16_Witness ==
    \E bid \in BorrowingIds, rv \in VerificationIds :
        /\ BoundTo(bid, "renew") = {rv}
        /\ verifications[rv].is_verified
        /\ borrowings[bid].renewed_count = 2
        /\ \E bv \in BoundTo(bid, "borrow") :
              borrowings[bid].due_date =
                  verifications[bv].expires_at - Hours(24) + Days(42)

AwaitedType(status) == IF status = "pending" THEN "borrow" ELSE "return"

\* a Borrowing waiting for a confirmation that can no longer come: every
\* code issued for the step ran out unconfirmed
Abandoned(bid) ==
    /\ borrowings[bid].status \in {"pending", "pending_return"}
    /\ \A vid \in BoundTo(bid, AwaitedType(borrowings[bid].status)) :
          /\ ~verifications[vid].is_verified
          /\ is_expired(verifications[vid])

\* C19: a pending or pending_return Borrowing whose code ran out
\* unconfirmed is never reverted.  Whatever request is sent, the Borrowing
\* keeps its status, its codes stay as they are and no new verification
\* is bound to it (so it is abandoned in the next state too, time only
\* moving on), and when a request takes a copy of the book of an
\* abandoned pending Borrowing, it is for another Borrowing that the
\* request confirms.
C19_AbandonedStaysPut ==
    \A bid \in BorrowingIds :
        Abandoned(bid) =>
            \A rq \in Requests :
                /\ rq.res.borrowings[bid].status = borrowings[bid].status
                /\ \A vid \in VerificationIds :
                      verifications[vid].borrowing_id = bid =>
                          rq.res.verifications[vid] = verifications[vid]
                /\ \A vid \in (Len(verifications) + 1)..Len(rq.res.verifications) :
                      rq.res.verifications[vid].borrowing_id # bid
                /\ (/\ borrowings[bid].status = "pending"
                    /\ rq.res.available[borrowings[bid].book_id]
                           < available[borrowings[bid].book_id]) =>
                       \E other \in BorrowingIds \ {bid} :
                           /\ VerifiedFor(rq, other, "borrow")
                           /\ rq.res.borrowings[other].status = "borrowed"

\* a borrow request left unconfirmed until its code ran out, and a request
\* of the same user accepted after that
C19_Witness ==
    \E bid \in BorrowingIds, vid, later \in VerificationIds :
        /\ Abandoned(bid)
        /\ borrowings[bid].status = "pending"
        /\ vid \in BoundTo(bid, "borrow")
        /\ verifications[later].user_id = borrowings[bid].user_id
        /\ verifications[later].expires_at - Hours(24)
               > verifications[vid].expires_at

OutOn(b) ==
    {bid \in BorrowingIds :
        /\ borrowings[bid].book_id = b
        /\ borrowings[bid].status \in {"borrowed", "pending_return"}}

\* C17: borrow verifications that run concurrently never hand out a copy
\* twice.  (a) available_copies never goes below 0 and the Borrowings out
\* on a book are as many as the copies taken from it, so a book that was
\* down to its last copy has at most one more Borrowing borrowed and
\* available_copies = 0.  (b) A request about to commit for a Borrowing
\* that is pending while the book has no copy left is reported 'no longer
\* available', leaves the Borrowing pending and available_copies as it
\* is, and stores its code as verified.
C17_LastCopyGoesToOne ==
    /\ \A b \in Books :
          /\ available[b] >= 0
          /\ Cardinality(OutOn(b)) + available[b] = TotalCopies[b]
    /\ \A u \in Users :
          threads[u].pc = "read" =>
              LET vid == threads[u].vid
                  bid == verifications[vid].borrowing_id
                  b   == borrowings[bid].book_id
                  res == FinalizeBorrowSeen(u, vid, threads[u].status,
                                            threads[u].seen)
              IN  (borrowings[bid].status = "pending" /\ available[b] <= 0) =>
                      /\ res.flash = "no_longer_available"
                      /\ res.borrowings = borrowings
                      /\ res.available = available
                      /\ res.verifications[vid].is_verified

\* two users confirmed their pending borrows of a book with one copy at
\* the same time, and both were told the book is theirs: two Borrowings
\* borrowed, one copy
C17_BothBorrowed ==
    \E u, w \in Users :
        /\ u # w
        /\ threads[u].pc = "done" /\ threads[w].pc = "done"
        /\ threads[u].seen = 1 /\ threads[w].seen = 1
        /\ threads[u].flash = "verified" /\ threads[w].flash = "verified"
        /\ \E b \in Books :
              /\ TotalCopies[b] = 1
              /\ available[b] = 0
              /\ \A t \in {u, w} :
                    LET bid == verifications[threads[t].vid].borrowing_id
                    IN  /\ borrowings[bid].book_id = b
                        /\ borrowings[bid].user_id = t
                        /\ borrowings[bid].status = "borrowed"

\* the verifications a message was about: of the recipient, of the kind
\* and for the book its subject names
VerificationsOf(i) ==
    {vid \in VerificationIds :
        /\ verifications[vid].user_id = email_logs[i].recipient
        /\ verifications[vid].transaction_type = email_logs[i].subject[1]
        /\ borrowings[verifications[vid].borrowing_id].book_id
               = email_logs[i].subject[2]}

\* C21: a failure of email dispatch never undoes what a borrow, return or
\* renew request wrote.  (a) Whatever becomes of send_email(), the request
\* commits the same rows and ends with the same message as when the email
\* goes out.  (b) For every message that was never handed to a sender
\* thread or whose delivery failed, the verification issued by its request
\* is in the table, bound to a Borrowing that the request created (borrow)
\* or moved on (return: pending_return or later).
C21_MailFailureKeepsRequest ==
    /\ \A mail \in MailOutcomes, u \in Users, code \in Codes :
          /\ \A b \in Books : borrow_mailed(u, b, code, mail) = borrow(u, b, code)
          /\ \A bid \in BorrowingIds :
                /\ return_book_mailed(u, bid, code, mail)
                       = return_book(u, bid, code)
                /\ renew_book_mailed(u, bid, code, mail)
                       = renew_book(u, bid, code)
    /\ \A i \in EmailLogIds :
          email_logs[i].message \in {"none", "failed"} =>
              /\ VerificationsOf(i) # {}
              /\ email_logs[i].subject[1] = "return" =>
                    \E vid \in VerificationsOf(i) :
                        borrowings[verifications[vid].borrowing_id].status
                            \in {"pending_return", "returned"}

\* send_email() raised in a return request and the delivery of the message
\* of a borrow request failed: the Borrowing is pending_return with its
\* return verification all the same
C21_Witness ==
    \E i, j \in EmailLogIds :
        /\ email_logs[i].message = "none"
        /\ email_logs[i].subject[1] = "return"
        /\ \E vid \in VerificationsOf(i) :
              borrowings[verifications[vid].borrowing_id].status
                  = "pending_return"
        /\ email_logs[j].message = "failed"
        /\ email_logs[j].status = "failed"
        /\ email_logs[j].subject[1] = "borrow"

\* the requests about notifications, with what their handlers answer
NotificationRequests ==
    {[op |-> "read", res |-> mark_notification_read(u, nid)] :
        u \in Users, nid \in NotificationIds}
    \cup {[op |-> "read_all", res |-> mark_all_notifications_read(u)] :
             u \in Users}
    \cup {[op |-> "delete", res |-> delete_notification(u, nid)] :
             u \in Users, nid \in NotificationIds}

\* the result stores another status for a Borrowing or a new Borrowing
WritesStatus(res) ==
    \/ Len(res.borrowings) # Len(borrowings)
    \/ \E bid \in BorrowingIds :
          res.borrowings[bid].status # borrowings[bid].status

\* the result stores another is_verified for a verification
WritesVerified(res) ==
    \/ Len(res.verifications) < Len(verifications)
    \/ \E vid \in VerificationIds :
          res.verifications[vid].is_verified # verifications[vid].is_verified
    \/ \E vid \in (Len(verifications) + 1)..Len(res.verifications) :
          res.verifications[vid].is_verified

\* the result leaves available_copies, every Borrowing.status and every
\* is_verified as they were
LeavesTheThree(res) ==
    /\ res.available = available
    /\ ~WritesStatus(res)
    /\ ~WritesVerified(res)

\* C22: available_copies, Borrowing.status and is_verified are written by
\* the borrow, return and verify requests only: whatever renew, reserve,
\* cancel-reservation, pay-fine, pay-all-fines and notification request
\* is sent, the three are as they were.
C22_WorkflowIsSoleWriter ==
    /\ \A u \in Users, bid \in BorrowingIds :
           \A code \in DrawCodes(u) : \A res \in {renew_book(u, bid, code)} :
               LeavesTheThree(res)
    /\ \A u \in Users, b \in Books :
           \A res \in {reserve(u, b), cancel_reservation(u, b)} :
               LeavesTheThree(res)
    /\ \A u \in Users :
           \A res \in {pay_all_fines(u), mark_all_notifications_read(u)} :
               LeavesTheThree(res)
    /\ \A u \in Users, bid \in BorrowingIds :
           \A res \in {pay_fine(u, bid)} : LeavesTheThree(res)
    /\ \A u \in Users, nid \in NotificationIds :
           \A res \in {mark_notification_read(u, nid),
                        delete_notification(u, nid)} :
               LeavesTheThree(res)

\* a state in which a reservation can be made and another cancelled, a
\* Borrowing renewed and a notification deleted, each of them changing
\* the tables
C22_Witness ==
    /\ \E rq \in Requests : rq.op = "reserve" /\ rq.res.flash = "reserved"
    /\ \E rq \in Requests :
          rq.op = "cancel" /\ rq.res.flash = "reservation_cancelled"
    /\ \E rq \in Requests : rq.op = "renew" /\ rq.res.flash = "renewed"
    /\ \E rq \in NotificationRequests :
          rq.op = "delete" /\ rq.res.notifications # notifications

\* C23: copies are conserved.  From a library with no Borrowing and every
\* copy available, under whole requests, every book has available_copies
\* plus its Borrowings in status borrowed or pending_return equal to
\* total_copies.
C23_CopiesConserved ==
    \A b \in Books : available[b] + Cardinality(OutOn(b)) = TotalCopies[b]

\* a copy of a book went out and came back, and a copy of it is out
C23_Witness ==
    \E b \in Books, p, q \in BorrowingIds :
        /\ borrowings[p].book_id = b /\ borrowings[p].status = "returned"
        /\ borrowings[q].book_id = b
        /\ borrowings[q].status \in {"borrowed", "pending_return"}
        /\ available[b] = TotalCopies[b] - Cardinality(OutOn(b))

\* the Borrowings of a book a user holds borrowed
HeldBy(u, b) ==
    {bid \in BorrowingIds :
        /\ borrowings[bid].user_id = u
        /\ borrowings[bid].book_id = b
        /\ borrowings[bid].status = "borrowed"}

\* C24: a user never holds two Borrowings of the same book in status
\* borrowed at the same time, whatever borrow requests and verifications
\* were made.
C24_NoDoubleBorrow ==
    \A u \in Users, b \in Books : Cardinality(HeldBy(u, b)) <= 1

\* a user asked for the same book twice before confirming, confirmed both
\* codes, and holds two copies of it
C24_BothConfirmed ==
    \E u \in Users, b \in Books, p, q \in BorrowingIds :
        /\ p # q
        /\ {p, q} \subseteq HeldBy(u, b)
        /\ \A bid \in {p, q} :
              \E vid \in BoundTo(bid, "borrow") :
                  /\ verifications[vid].is_verified
                  /\ verifications[vid].user_id = u
        /\ available[b] = TotalCopies[b] - 2

\* C25: the number of Borrowings a user holds in status borrowed never
\* exceeds max_books_per_user, whatever borrow requests and verifications
\* were made.
C25_CapNeverExceeded ==
    \A u \in Users : ActiveCount(u) <= MaxBooksPerUser

\* a user one book short of the cap asked for two books before confirming
\* either, confirmed both, and holds one book more than the cap allows
C25_OverTheCap ==
    \E u \in Users, p, q \in BorrowingIds :
        /\ p # q
        /\ ActiveCount(u) = MaxBooksPerUser + 1
        /\ \A bid \in {p, q} :
              /\ borrowings[bid].user_id = u
              /\ borrowings[bid].status = "borrowed"
              /\ \E vid \in BoundTo(bid, "borrow") : verifications[vid].is_verified

\* C26: when a return is about to be confirmed for a book that has a
\* pending reservation not yet told about a copy, the reservation the
\* return selects is one not yet told: returns confirmed one after another
\* promote distinct reservations, oldest first.
C26_PromotesDistinct ==
    \A vid \in VerificationIds :
        (/\ Usable(vid)
         /\ verifications[vid].transaction_type = "return"
         /\ \E i \in PendingOn(borrowings[verifications[vid].borrowing_id].book_id) :
                ~reservations[i].notified)
        => \A res \in {FinalizeReturn(verifications[vid].user_id, vid)} :
               \E i \in ReservationIds :
                   /\ ~reservations[i].notified
                   /\ res.reservations[i].notified

\* both copies of a book came back, one return confirmed after the other,
\* while two reservations were pending, none cancelled or borrowed against:
\* the older one was told twice and the younger one never
C26_SameOneTwice ==
    \E b \in Books, i, j \in ReservationIds :
        /\ PendingOn(b) = {i, j}
        /\ i # j
        /\ \A r \in ReservationIds : reservations[r].book_id = b => r \in {i, j}
        /\ NotAfter(reservations[i].created_at, reservations[j].created_at)
        /\ reservations[i].notified
        /\ ~reservations[j].notified
        /\ available[b] = 2
        /\ Cardinality({v \in VerificationIds :
               /\ verifications[v].transaction_type = "return"
               /\ verifications[v].is_verified
               /\ borrowings[verifications[v].borrowing_id].book_id = b
               /\ \A r \in {i, j} :
                      reservations[r].created_at[1] <= verifications[v].verified_at}) = 2

\* C27: a user has at most one pending Reservation per book; reserve
\* appends one pending Reservation of the user for the book, and nothing
\* else, when the book has available_copies = 0 and the user has no pending
\* Reservation for it, and changes no table otherwise.
C27_OnePendingReservation ==
    /\ \A u \in Users, b \in Books :
           Cardinality({i \in PendingOn(b) : reservations[i].user_id = u}) <= 1
    /\ \A u \in Users, b \in Books : \A res \in {reserve(u, b)} :
           IF /\ available[b] = 0
              /\ \A i \in PendingOn(b) : reservations[i].user_id # u
           THEN /\ Len(res.reservations) = Len(reservations) + 1
                /\ SubSeq(res.reservations, 1, Len(reservations)) = reservations
                /\ res.reservations[Len(res.reservations)].user_id = u
                /\ res.reservations[Len(res.reservations)].book_id = b
                /\ res.reservations[Len(res.reservations)].status = "pending"
                /\ res.available = available
                /\ res.borrowings = borrowings
                /\ res.verifications = verifications
                /\ res.notifications = notifications
           ELSE NoChange(res)

\* a user holding a pending Reservation of a book with no copy on the shelf
\* asks to reserve it again and is told that the reservation exists
C27_Witness ==
    \E u \in Users, b \in Books :
        /\ available[b] = 0
        /\ \E i \in PendingOn(b) : reservations[i].user_id = u
        /\ reserve(u, b).flash = "already_reserved"

\* the fields of a Borrowing that a return settles
Settled(r) ==
    <<r.status, r.due_date, r.renewed_count, r.return_date, r.fine_amount>>

\* C28: returned is terminal.  Whatever request is sent, a Borrowing with
\* status returned keeps its status, due_date, renewed_count, return_date
\* and fine_amount, also when the request verifies a renew code that was
\* issued for it before it was returned.
C28_ReturnedIsTerminal ==
    \A rq \in Requests : \A bid \in BorrowingIds :
        borrowings[bid].status = "returned"
        => Settled(rq.res.borrowings[bid]) = Settled(borrowings[bid])

\* a Borrowing was renewed, then returned, and the renew code of that one
\* renewal, typed after the return was confirmed, renewed it once more
C28_RenewedAfterReturn ==
    \E bid \in BorrowingIds :
        /\ borrowings[bid].status = "returned"
        /\ borrowings[bid].renewed_count = 2
        /\ borrowings[bid].due_date = Days(MaxBorrowDays) * 3
        /\ Cardinality(BoundTo(bid, "renew")) = 1
        /\ \E v \in BoundTo(bid, "renew"), w \in BoundTo(bid, "return") :
               /\ verifications[v].is_verified
               /\ verifications[w].is_verified
               /\ v < w
               /\ verifications[v].verified_at > borrowings[bid].return_date

\* C29: however return requests for one Borrowing interleave, at most one
\* return verification of the Borrowing is ever confirmed, so that the
\* Borrowing gives its copy back once, and no book has more copies on the
\* shelf than it owns.
C29_OneReturnFinalizes ==
    /\ \A bid \in BorrowingIds :
           Cardinality({v \in BoundTo(bid, "return") :
                           verifications[v].is_verified}) <= 1
    /\ \A b \in Books : available[b] <= TotalCopies[b]

\* a second return request found the Borrowing still borrowed between the
\* two commits of the first; both return codes were confirmed, and the one
\* Borrowing of the book put two copies back
C29_ReturnedTwice ==
    \E bid \in BorrowingIds :
        /\ \A i \in BorrowingIds :
               borrowings[i].book_id = borrowings[bid].book_id => i = bid
        /\ Cardinality({v \in BoundTo(bid, "return") :
                           verifications[v].is_verified}) = 2
        /\ available[borrowings[bid].book_id]
               = TotalCopies[borrowings[bid].book_id] + 1
        /\ \E u \in Users : threads[u].pc = "done"

\* C30: an EmailLog row says sent only when the message it was created
\* for was delivered, and failed only when that message failed, also when
\* two messages to one recipient with one subject are under way together.
C30_LogTellsFate ==
    \A i \in EmailLogIds :
        /\ email_logs[i].status = "sent" => email_logs[i].message = "delivered"
        /\ email_logs[i].status = "failed" => email_logs[i].message = "failed"

\* two messages with the same recipient and subject were queued within ten
\* minutes; the first was delivered and its thread marked both rows sent,
\* the second failed and its thread found no pending row: the row of the
\* failed message says sent
C30_SentButFailed ==
    \E i, j \in EmailLogIds :
        /\ i # j
        /\ email_logs[i].recipient = email_logs[j].recipient
        /\ email_logs[i].subject = email_logs[j].subject
        /\ email_logs[i].status = "sent"
        /\ email_logs[i].message = "delivered"
        /\ email_logs[j].status = "sent"
        /\ email_logs[j].message = "failed"

====
